---- MODULE Spec2Model ----
(***************************************************************************)
(* Model of the contacts backend: the token issuer/verifier of             *)
(* src/src/services/authservice.py, the user directory of                  *)
(* src/src/repository/users_repo.py, the contact store of                  *)
(* src/src/repository/contacts_repo.py and the GET /me route of            *)
(* src/src/routes/users.py.                                                *)
(*                                                                         *)
(* Time is the integer number of seconds since the epoch: jwt.encode       *)
(* stores "exp" and "iat" as whole seconds and jwt.decode compares "exp"   *)
(* with the verifier's clock truncated to whole seconds.                   *)
(***************************************************************************)
EXTENDS Integers, Sequences, FiniteSets, TLC

VARIABLES
    now,        \* datetime.utcnow(), in whole seconds
    users,      \* the users table: a sequence of rows, in insertion order
    held,       \* the token the client was handed last: [tok, by]
    last,       \* outcome of the last token / user operation
    contacts,   \* the contacts table: a set of rows
    nextId,     \* next primary key of the contacts table
    clast,      \* outcome of the last contact-store operation
    today,      \* datetime.datetime.now().date(), as [y, m, d]
    reqs        \* the registration requests: [pc, email, res] of each

vars == <<now, users, held, last, contacts, nextId, clast, today, reqs>>

authVars    == <<now, users, held, last, reqs>>
contactVars == <<contacts, nextId, clast, today>>

(***************************************************************************)
(* Bounds of the model.                                                    *)
(***************************************************************************)
MaxTicks  == 1      \* clock advances per behaviour
MaxUsers  == 1      \* rows of the users table

Emails == {"a@x.com", "b@x.com"}

None  == "None"     \* Python's None
NoSub == "NoSub"    \* payload without a "sub" key

(***************************************************************************)
(* Program constants (authservice.py).                                     *)
(***************************************************************************)
SECRET_KEY == "settings.secret_key"
OTHER_KEY  == "some.other.key"

ACCESS_MINUTES == 15
REFRESH_DAYS   == 7
EMAIL_HOURS    == 1
RESET_HOURS    == 1

HTTP_401 == 401
HTTP_422 == 422
HTTP_404 == 404

CREDENTIALS_DETAIL == "Could not validate credentials"
SCOPE_DETAIL       == "Invalid token scope"
EMAIL_422_DETAIL   == "Invalid token for email confirmation."
RESET_422_DETAIL   == "Invalid token for password reset."

Scopes == {"access_token", "refresh_token", "email_token", "refresh"}

(***************************************************************************)
(* jose.jwt: a token is its payload together with a MAC over the payload   *)
(* under the signing key.  "garbage" is a string that is no JWT at all.    *)
(***************************************************************************)
Mac(key, payload) == [key |-> key, over |-> payload]

jwt_encode(payload, key) ==
    [jwt |-> TRUE, payload |-> payload, mac |-> Mac(key, payload)]

NoPayload == [sub |-> NoSub, iat |-> 0, exp |-> 0, scope |-> "garbage"]

Malformed == [jwt |-> FALSE, payload |-> NoPayload,
              mac |-> Mac("garbage", NoPayload)]

\* Faulty variant of jwt_decode: the "exp" claim is not looked at.
jwt_decode_ignoring_exp(token, key, clock) ==
    IF ~token.jwt
      THEN [ok |-> FALSE, err |-> "JWTError"]
    ELSE IF token.mac # Mac(key, token.payload)
      THEN [ok |-> FALSE, err |-> "JWTError"]
    ELSE [ok |-> TRUE, payload |-> token.payload]

\* jwt.decode(token, key, algorithms): JWTError when the token is no JWT,
\* when the signature does not verify, or when exp < now (no leeway).
jwt_decode(token, key, clock) ==
    IF ~token.jwt
      THEN [ok |-> FALSE, err |-> "JWTError"]
    ELSE IF token.mac # Mac(key, token.payload)
      THEN [ok |-> FALSE, err |-> "JWTError"]
    ELSE IF token.payload.exp < clock
      THEN [ok |-> FALSE, err |-> "ExpiredSignatureError"]
    ELSE [ok |-> TRUE, payload |-> token.payload]

\* payload.get("sub")
PayloadSub(payload) == IF payload.sub = NoSub THEN None ELSE payload.sub

(***************************************************************************)
(* Issuers.  data is the "sub" to include (NoSub for a dict without it),   *)
(* delta the optional expires_delta in seconds: <<>> when not given (None), *)
(* <<d>> when given.                                                       *)
(***************************************************************************)
Truthy(delta) == delta # <<>> /\ delta[1] # 0

create_access_token(data, delta, clock) ==
    LET expires == IF Truthy(delta) THEN clock + delta[1]
                                    ELSE clock + ACCESS_MINUTES * 60
    IN  jwt_encode([sub |-> data, iat |-> clock, exp |-> expires,
                    scope |-> "access_token"], SECRET_KEY)

\* Variant of create_refresh_token tagged with the scope that
\* decode_refresh_token asks for.
create_refresh_token_tagged_refresh(data, delta, clock) ==
    LET expires == IF Truthy(delta) THEN clock + delta[1]
                                    ELSE clock + REFRESH_DAYS * 24 * 3600
    IN  jwt_encode([sub |-> data, iat |-> clock, exp |-> expires,
                    scope |-> "refresh_token"], SECRET_KEY)

create_refresh_token(data, delta, clock) ==
    LET expires == IF Truthy(delta) THEN clock + delta[1]
                                    ELSE clock + REFRESH_DAYS * 24 * 3600
    IN  jwt_encode([sub |-> data, iat |-> clock, exp |-> expires,
                    scope |-> "access_token"], SECRET_KEY)

create_email_token(data, clock) ==
    jwt_encode([sub |-> data, iat |-> clock,
                exp |-> clock + EMAIL_HOURS * 3600,
                scope |-> "email_token"], SECRET_KEY)

create_reset_token(data, expire, clock) ==
    jwt_encode([sub |-> data, iat |-> clock,
                exp |-> clock + expire * 3600,
                scope |-> "refresh"], SECRET_KEY)

(***************************************************************************)
(* Outcomes of an operation: a returned value or a raised HTTPException.   *)
(***************************************************************************)
Return(v) == [kind |-> "return", value |-> v]

Raise(status, detail) == [kind |-> "raise", status |-> status, detail |-> detail]

(***************************************************************************)
(* users_repo.repo_user_authentication_by_email: the first row with that   *)
(* email (result.scalar()); NoUser stands for None when there is none.     *)
(***************************************************************************)
NoUser == [id |-> 0, email |-> None, is_activated |-> FALSE,
           refresh_token |-> Malformed]

\* Faulty variant of the lookup: the where clause on the email is dropped.
first_user_of_table(email, table) ==
    IF Len(table) = 0 THEN NoUser ELSE table[1]

repo_user_authentication_by_email(email, table) ==
    LET hits == {i \in 1..Len(table) : table[i].email = email}
    IN  IF hits = {} THEN NoUser
        ELSE table[CHOOSE i \in hits : \A j \in hits : i <= j]

(***************************************************************************)
(* Verifiers.                                                              *)
(***************************************************************************)
credentials_exception == Raise(HTTP_401, CREDENTIALS_DETAIL)

get_current_user(token, clock, table) ==
    LET dec == jwt_decode(token, SECRET_KEY, clock)
    IN  IF ~dec.ok THEN credentials_exception
        ELSE IF dec.payload.scope # "access_token" THEN credentials_exception
        ELSE IF PayloadSub(dec.payload) = None THEN credentials_exception
        ELSE LET user == repo_user_authentication_by_email(
                             PayloadSub(dec.payload), table)
             IN  IF user = NoUser THEN credentials_exception
                 ELSE Return(user)

\* Faulty variant of decode_refresh_token: one detail for every failure.
decode_refresh_token_one_detail(token, clock) ==
    LET dec == jwt_decode(token, SECRET_KEY, clock)
    IN  IF ~dec.ok THEN Raise(HTTP_401, CREDENTIALS_DETAIL)
        ELSE IF dec.payload.scope = "refresh_token"
          THEN Return(PayloadSub(dec.payload))
        ELSE Raise(HTTP_401, CREDENTIALS_DETAIL)

decode_refresh_token(token, clock) ==
    LET dec == jwt_decode(token, SECRET_KEY, clock)
    IN  IF ~dec.ok THEN Raise(HTTP_401, CREDENTIALS_DETAIL)
        ELSE IF dec.payload.scope = "refresh_token"
          THEN Return(PayloadSub(dec.payload))
        ELSE Raise(HTTP_401, SCOPE_DETAIL)

\* Faulty variant of get_email_from_token: the scope is not looked at.
get_email_from_token_any_scope(token, clock) ==
    LET dec == jwt_decode(token, SECRET_KEY, clock)
    IN  IF ~dec.ok THEN Raise(HTTP_422, EMAIL_422_DETAIL)
        ELSE Return(PayloadSub(dec.payload))

get_email_from_token(token, clock) ==
    LET dec == jwt_decode(token, SECRET_KEY, clock)
    IN  IF ~dec.ok THEN Raise(HTTP_422, EMAIL_422_DETAIL)
        ELSE IF dec.payload.scope = "email_token"
          THEN Return(PayloadSub(dec.payload))
        ELSE Return(None)

\* Faulty variant of get_email_from_reset_token: a scope mismatch raises.
get_email_from_reset_token_strict(token, clock) ==
    LET dec == jwt_decode(token, SECRET_KEY, clock)
    IN  IF ~dec.ok THEN Raise(HTTP_422, RESET_422_DETAIL)
        ELSE IF dec.payload.scope = "refresh"
          THEN Return(PayloadSub(dec.payload))
        ELSE Raise(HTTP_422, RESET_422_DETAIL)

get_email_from_reset_token(token, clock) ==
    LET dec == jwt_decode(token, SECRET_KEY, clock)
    IN  IF ~dec.ok THEN Raise(HTTP_422, RESET_422_DETAIL)
        ELSE IF dec.payload.scope = "refresh"
          THEN Return(PayloadSub(dec.payload))
        ELSE Return(None)

\* routes/users.py: GET /me returns the user get_current_user resolved.
get_my_info(token, clock, table) == get_current_user(token, clock, table)

(***************************************************************************)
(* users_repo.repo_create_user: the row that is added.  The refresh token  *)
(* is issued for the body's email with the default lifetime.               *)
(***************************************************************************)
NewUserRow(email, table, clock) ==
    [id |-> Len(table) + 1, email |-> email, is_activated |-> FALSE,
     refresh_token |-> create_refresh_token(email, <<>>, clock)]

\* The users table after registering the emails of seq, in order.
RECURSIVE Registered(_, _)
Registered(seq, clock) ==
    IF seq = <<>> THEN <<>>
    ELSE LET before == Registered(SubSeq(seq, 1, Len(seq) - 1), clock)
         IN  Append(before, NewUserRow(seq[Len(seq)], before, clock))

(***************************************************************************)
(* Token state machine: a client is handed tokens by the issuers and       *)
(* presents bearer strings to the verifiers while the clock advances.      *)
(***************************************************************************)
Idle == [op |-> "none", token |-> Malformed, res |-> Return(None)]

NotHeld == [tok |-> Malformed, by |-> "none"]

Deltas == {<<>>, <<0>>, <<1>>}

Subjects == Emails \cup {NoSub}

\* One clock advance is a second, or an hour and a second; Ticks counts
\* the advances made.
TickSteps == {1, 3601}

Ticks(clock) == (clock \div 3601) + (clock % 3601)

\* Bearer strings a client can present beside the tokens it was handed:
\* JWTs with the scope decode_refresh_token asks for, about to expire or
\* just expired, JWTs signed with another key, and a string that is no JWT.
Crafted(clock) ==
    {jwt_encode([sub |-> s, iat |-> 0, exp |-> e, scope |-> "refresh_token"],
                SECRET_KEY) : s \in {"a@x.com", NoSub}, e \in {clock - 1, clock}}
    \cup {jwt_encode([sub |-> "a@x.com", iat |-> 0, exp |-> clock, scope |-> sc],
                     OTHER_KEY) : sc \in Scopes}
    \cup {Malformed}

Stored(table) == {table[i].refresh_token : i \in 1..Len(table)}

Presentable == {held.tok} \cup Stored(users) \cup Crafted(now)

\* The issuers known to have produced token t.
IssuedBy(t) ==
    (IF held.tok = t /\ held.by # "none" THEN {held.by} ELSE {})
    \cup (IF t \in Stored(users) THEN {"create_refresh_token"} ELSE {})

\* Users tables of at most MaxUsers rows, registered at the epoch.
UserTables ==
    {Registered(seq, 0) :
        seq \in UNION {[1..n -> Emails] : n \in 0..MaxUsers}}

ContactsIdle == [op |-> "none", user |-> 0, id |-> 0, res |-> Return(None)]

Date(y, m, d) == [y |-> y, m |-> m, d |-> d]

AuthInit ==
    /\ now = 0
    /\ users \in UserTables
    /\ held = NotHeld
    /\ last = Idle
    /\ reqs = <<>>
    /\ contacts = {}
    /\ nextId = 1
    /\ clast = ContactsIdle
    /\ today = Date(2023, 1, 1)

Tick ==
    /\ Ticks(now) < MaxTicks
    /\ \E d \in TickSteps : now' = now + d
    /\ last' = Idle
    /\ UNCHANGED <<users, held, reqs>>
    /\ UNCHANGED contactVars

Hand(tok, by) ==
    /\ held' = [tok |-> tok, by |-> by]
    /\ last' = Idle
    /\ UNCHANGED <<now, users, reqs>>
    /\ UNCHANGED contactVars

IssueAccess ==
    \E data \in Subjects, delta \in Deltas :
        Hand(create_access_token(data, delta, now), "create_access_token")

IssueRefresh ==
    \E data \in Subjects, delta \in Deltas :
        Hand(create_refresh_token(data, delta, now), "create_refresh_token")

IssueEmail ==
    \E data \in Subjects :
        Hand(create_email_token(data, now), "create_email_token")

IssueReset ==
    \E data \in Subjects :
        Hand(create_reset_token(data, RESET_HOURS, now), "create_reset_token")

Verify(op, t, res) ==
    /\ last' = [op |-> op, token |-> t, res |-> res]
    /\ UNCHANGED <<now, users, held, reqs>>
    /\ UNCHANGED contactVars

GetMe ==
    \E t \in Presentable :
        Verify("get_current_user", t, get_my_info(t, now, users))

DecodeRefresh ==
    \E t \in Presentable :
        Verify("decode_refresh_token", t, decode_refresh_token(t, now))

EmailFromToken ==
    \E t \in Presentable :
        Verify("get_email_from_token", t, get_email_from_token(t, now))

EmailFromResetToken ==
    \E t \in Presentable :
        Verify("get_email_from_reset_token", t,
               get_email_from_reset_token(t, now))

AuthNext ==
    \/ Tick
    \/ IssueAccess
    \/ IssueRefresh
    \/ IssueEmail
    \/ IssueReset
    \/ GetMe
    \/ DecodeRefresh
    \/ EmailFromToken
    \/ EmailFromResetToken

SpecAuth == AuthInit /\ [][AuthNext]_vars

(***************************************************************************)
(* Contact store (contacts_repo.py).  A row of the contacts table has the  *)
(* primary key id, the owner user_id and the fields of the contact         *)
(* schemas.  NoContact stands for the None of an empty query result.       *)
(***************************************************************************)
MaxIds        == 2      \* primary keys handed out per behaviour
MaxBodyFields == 2      \* fields set in one update body

UserIds == {1, 2}

ContactFields == {"first_name", "last_name", "email", "phone", "b_day", "note"}

NoDate == Date(0, 0, 0)     \* None in a date column

FirstNames == {"John", "Ann"}
LastNames  == {"Doe"}
MailBoxes  == {"jd@x.com"}
Phones     == {"555-0100"}
BirthDays  == {Date(1990, 1, 1)}
Notes      == {"n"}

\* ContactCreate: every field given.
CreateBodies ==
    [first_name : FirstNames, last_name : LastNames, email : MailBoxes,
     phone : Phones, b_day : BirthDays, note : Notes]

\* ContactUpdate: fields_set are the fields the request gave, values the
\* model's attributes (None for a field that was not given).
Unset ==
    [first_name |-> None, last_name |-> None, email |-> None,
     phone |-> None, b_day |-> NoDate, note |-> None]

UpdateBodies ==
    {[fields_set |-> S, values |-> v] :
        <<S, v>> \in
            {sv \in (SUBSET ContactFields) \X
                    [first_name : FirstNames \cup {None},
                     last_name : LastNames \cup {None},
                     email : MailBoxes \cup {None},
                     phone : Phones \cup {None},
                     b_day : BirthDays \cup {NoDate},
                     note : Notes \cup {None}] :
                /\ Cardinality(sv[1]) <= MaxBodyFields
                /\ \A f \in ContactFields :
                      (f \in sv[1]) <=> (sv[2][f] # Unset[f])}}

\* body.dict(exclude_unset=True)
DictExcludeUnset(body) == [f \in body.fields_set |-> body.values[f]]

NoContact ==
    [id |-> 0, user_id |-> 0, first_name |-> None, last_name |-> None,
     email |-> None, phone |-> None, b_day |-> NoDate, note |-> None]

\* Contact(**body.dict(), user_id=user.id) with the primary key the
\* database assigns on flush.
NewContact(id, user, body) ==
    [id |-> id, user_id |-> user,
     first_name |-> body.first_name, last_name |-> body.last_name,
     email |-> body.email, phone |-> body.phone,
     b_day |-> body.b_day, note |-> body.note]

\* Faulty variant of the lookup: the owner is not part of the query.
get_contact_of_any_user(id, user, table) ==
    LET hits == {c \in table : c.id = id}
    IN  IF hits = {} THEN NoContact ELSE CHOOSE c \in hits : TRUE

get_specific_contact_belongs_to_user(id, user, table) ==
    LET hits == {c \in table : c.user_id = user /\ c.id = id}
    IN  IF hits = {} THEN NoContact ELSE CHOOSE c \in hits : TRUE

NOT_FOUND_DETAIL == "Contact not found"

NotFound == Raise(HTTP_404, NOT_FOUND_DETAIL)

repo_get_contact_by_id(id, user, table) ==
    LET contact == get_specific_contact_belongs_to_user(id, user, table)
    IN  IF contact = NoContact THEN NotFound ELSE Return(contact)

\* for field, value in body.dict(exclude_unset=True).items(): setattr(...)
SetAttrs(contact, dict) ==
    [f \in DOMAIN contact |->
        IF f \in DOMAIN dict THEN dict[f] ELSE contact[f]]

\* Faulty variant of the update: the whole body is written, given or not.
update_replacing_all(id, user, body, table) ==
    LET contact == get_specific_contact_belongs_to_user(id, user, table)
        updated == SetAttrs(contact, body.values)
    IN  IF contact = NoContact
          THEN [res |-> NotFound, table |-> table]
          ELSE [res |-> Return(updated),
                table |-> (table \ {contact}) \cup {updated}]

\* repo_update_contact_db: the outcome and the table after the commit.
update_contact(id, user, body, table) ==
    LET contact == get_specific_contact_belongs_to_user(id, user, table)
        updated == SetAttrs(contact, DictExcludeUnset(body))
    IN  IF contact = NoContact
          THEN [res |-> NotFound, table |-> table]
          ELSE [res |-> Return(updated),
                table |-> (table \ {contact}) \cup {updated}]

DeletedMessage(contact_name) ==
    "Contact '" \o contact_name \o "' successfully deleted"

\* Faulty variant of the delete: the name is put together last name first.
delete_naming_backwards(id, user, table) ==
    LET contact == get_specific_contact_belongs_to_user(id, user, table)
        contact_name == contact.last_name \o " " \o contact.first_name
    IN  IF contact = NoContact
          THEN [res |-> NotFound, table |-> table]
          ELSE [res |-> Return(DeletedMessage(contact_name)),
                table |-> table \ {contact}]

\* repo_delete_contact_db: the outcome and the table after the commit.
delete_contact(id, user, table) ==
    LET contact == get_specific_contact_belongs_to_user(id, user, table)
        contact_name == contact.first_name \o " " \o contact.last_name
    IN  IF contact = NoContact
          THEN [res |-> NotFound, table |-> table]
          ELSE [res |-> Return(DeletedMessage(contact_name)),
                table |-> table \ {contact}]

(***************************************************************************)
(* Contact store state machine.                                            *)
(***************************************************************************)
Done(op, user, id, res) ==
    /\ clast' = [op |-> op, user |-> user, id |-> id, res |-> res]
    /\ UNCHANGED authVars

\* Ids a request can name: those handed out so far and one never used.
RequestIds == 1..nextId

repo_create_new_contact(user, body) ==
    /\ contacts' = contacts \cup {NewContact(nextId, user, body)}
    /\ nextId' = nextId + 1
    /\ Done("repo_create_new_contact", user, nextId,
            Return(NewContact(nextId, user, body)))
    /\ UNCHANGED today

GetContact(user, id) ==
    /\ Done("repo_get_contact_by_id", user, id,
            repo_get_contact_by_id(id, user, contacts))
    /\ UNCHANGED <<contacts, nextId, today>>

repo_update_contact_db(user, id, body) ==
    LET out == update_contact(id, user, body, contacts)
    IN  /\ contacts' = out.table
        /\ Done("repo_update_contact_db", user, id, out.res)
        /\ UNCHANGED <<nextId, today>>

repo_delete_contact_db(user, id) ==
    LET out == delete_contact(id, user, contacts)
    IN  /\ contacts' = out.table
        /\ Done("repo_delete_contact_db", user, id, out.res)
        /\ UNCHANGED <<nextId, today>>

ContactsInit ==
    /\ contacts = {}
    /\ nextId = 1
    /\ clast = ContactsIdle
    /\ today = Date(2023, 1, 1)
    /\ now = 0
    /\ users = <<>>
    /\ held = NotHeld
    /\ last = Idle
    /\ reqs = <<>>

CreateContact ==
    /\ nextId <= MaxIds
    /\ \E user \in UserIds, body \in CreateBodies :
          repo_create_new_contact(user, body)

ReadContact ==
    \E user \in UserIds, id \in RequestIds : GetContact(user, id)

UpdateContact ==
    \E user \in UserIds, id \in RequestIds, body \in UpdateBodies :
        repo_update_contact_db(user, id, body)

DeleteContact ==
    \E user \in UserIds, id \in RequestIds : repo_delete_contact_db(user, id)

ContactsNext ==
    \/ CreateContact
    \/ ReadContact
    \/ UpdateContact
    \/ DeleteContact

SpecContacts == ContactsInit /\ [][ContactsNext]_vars

(***************************************************************************)
(* Calendar (datetime.date): proleptic Gregorian dates [y, m, d].          *)
(***************************************************************************)
IsLeap(y) == y % 4 = 0 /\ (y % 100 # 0 \/ y % 400 = 0)

DaysInMonth(y, m) ==
    IF m = 2 THEN (IF IsLeap(y) THEN 29 ELSE 28)
    ELSE IF m \in {4, 6, 9, 11} THEN 30 ELSE 31

\* datetime.datetime(y, m, d) raises ValueError unless this holds.
ValidDate(y, m, d) ==
    /\ m \in 1..12
    /\ d \in 1..DaysInMonth(y, m)

NextDay(date) ==
    IF date.d < DaysInMonth(date.y, date.m) THEN Date(date.y, date.m, date.d + 1)
    ELSE IF date.m < 12 THEN Date(date.y, date.m + 1, 1)
    ELSE Date(date.y + 1, 1, 1)

PrevDay(date) ==
    IF date.d > 1 THEN Date(date.y, date.m, date.d - 1)
    ELSE IF date.m > 1
      THEN Date(date.y, date.m - 1, DaysInMonth(date.y, date.m - 1))
    ELSE Date(date.y - 1, 12, 31)

\* date + datetime.timedelta(days=n)
RECURSIVE AddDays(_, _)
AddDays(date, n) ==
    IF n = 0 THEN date
    ELSE IF n > 0 THEN AddDays(NextDay(date), n - 1)
    ELSE AddDays(PrevDay(date), n + 1)

\* date.toordinal(): days since 0001-01-01, that day being 1.
DaysBeforeYear(y) ==
    LET p == y - 1 IN 365 * p + (p \div 4) - (p \div 100) + (p \div 400)

RECURSIVE DaysBeforeMonth(_, _)
DaysBeforeMonth(y, m) ==
    IF m = 1 THEN 0 ELSE DaysBeforeMonth(y, m - 1) + DaysInMonth(y, m - 1)

ToOrdinal(date) ==
    DaysBeforeYear(date.y) + DaysBeforeMonth(date.y, date.m) + date.d

\* a <= b on dates
DateLeq(a, b) ==
    \/ a.y < b.y
    \/ a.y = b.y /\ a.m < b.m
    \/ a.y = b.y /\ a.m = b.m /\ a.d <= b.d

(***************************************************************************)
(* contacts_repo.repo_get_upcoming_birthday_contacts.  The query has no    *)
(* ORDER BY, so the list is modelled by the set of its rows.  The loop     *)
(* builds datetime(today.year, b_day.month, b_day.day) for every row of    *)
(* the user; a ValueError there is caught nowhere and ends the request.    *)
(***************************************************************************)
WINDOW_DAYS == 7

ValueError == Raise(500, "ValueError: day is out of range for month")

upcoming_birthday_contacts(user, table, day) ==
    LET end_date == AddDays(day, WINDOW_DAYS)
        mine == {c \in table : c.user_id = user}
        today_year_b_day(c) == Date(day.y, c.b_day.m, c.b_day.d)
    IN  IF \E c \in mine : ~ValidDate(day.y, c.b_day.m, c.b_day.d)
          THEN ValueError
          ELSE Return({c \in mine :
                          /\ DateLeq(day, today_year_b_day(c))
                          /\ DateLeq(today_year_b_day(c), end_date)})

(***************************************************************************)
(* Birthday state machine: contacts are created, days pass, users ask for  *)
(* the upcoming birthdays.                                                 *)
(***************************************************************************)
MaxBirthdayContacts == 1    \* contacts created per behaviour
MaxDays == 85               \* days that pass per behaviour

StartDate == Date(2023, 12, 20)

BirthDates == {Date(1990, 1, 1), Date(2000, 2, 29), Date(1985, 3, 1),
               Date(1999, 12, 31), Date(2001, 1, 10)}

BirthdayBodies ==
    [first_name : {"John"}, last_name : LastNames, email : MailBoxes,
     phone : Phones, b_day : BirthDates, note : Notes]

BirthdayInit ==
    /\ contacts = {}
    /\ nextId = 1
    /\ clast = ContactsIdle
    /\ today = StartDate
    /\ now = 0
    /\ users = <<>>
    /\ held = NotHeld
    /\ last = Idle
    /\ reqs = <<>>

DayPasses ==
    /\ ToOrdinal(today) - ToOrdinal(StartDate) < MaxDays
    /\ today' = NextDay(today)
    /\ clast' = ContactsIdle
    /\ UNCHANGED <<contacts, nextId>>
    /\ UNCHANGED authVars

CreateBirthdayContact ==
    /\ nextId <= MaxBirthdayContacts
    /\ \E user \in UserIds, body \in BirthdayBodies :
          repo_create_new_contact(user, body)

repo_get_upcoming_birthday_contacts ==
    \E user \in UserIds :
        /\ Done("repo_get_upcoming_birthday_contacts", user, 0,
                upcoming_birthday_contacts(user, contacts, today))
        /\ UNCHANGED <<contacts, nextId, today>>

BirthdayNext ==
    \/ DayPasses
    \/ CreateBirthdayContact
    \/ repo_get_upcoming_birthday_contacts

SpecBirthday == BirthdayInit /\ [][BirthdayNext]_vars

(***************************************************************************)
(* Vocabulary of the token claims.                                         *)
(***************************************************************************)
Is401(res, detail) ==
    res.kind = "raise" /\ res.status = HTTP_401 /\ res.detail = detail

Is422(res) == res.kind = "raise" /\ res.status = HTTP_422

Signed(t) == t.jwt /\ t.mac = Mac(SECRET_KEY, t.payload)

Expired(t, clock) == t.jwt /\ t.payload.exp < clock

Decodes(t, clock) == Signed(t) /\ ~Expired(t, clock)

RegisteredEmails == {users[i].email : i \in 1..Len(users)}

Rows == {users[i] : i \in 1..Len(users)}

TokenVerifiers == {"get_current_user", "decode_refresh_token",
                   "get_email_from_token", "get_email_from_reset_token"}

\* C1: an access token issued for a registered user's email and presented
\* to get_current_user no later than its expiry is accepted and resolves to
\* a row of the users table whose email is the token's subject; whatever
\* token get_current_user accepts, the user it returns has the token's
\* subject as email.
C1_AccessRoundTrip ==
    last.op = "get_current_user" =>
        /\ ( /\ "create_access_token" \in IssuedBy(last.token)
             /\ last.token.payload.sub \in RegisteredEmails
             /\ now <= last.token.payload.exp )
           => /\ last.res.kind = "return"
              /\ last.res.value \in Rows
              /\ last.res.value.email = last.token.payload.sub
        /\ last.res.kind = "return"
           => /\ last.res.value \in Rows
              /\ last.res.value.email = last.token.payload.sub

C1_Witness ==
    /\ last.op = "get_current_user"
    /\ held.by = "create_access_token"
    /\ last.token = held.tok
    /\ now > last.token.payload.iat
    /\ now = last.token.payload.exp
    /\ last.res.kind = "return"
    /\ last.res.value.email = last.token.payload.sub

\* C2: a token issued by create_refresh_token, presented to GET /me in
\* place of the access token, is rejected with HTTP 401.
C2_RefreshRejectedByMe ==
    ( /\ last.op = "get_current_user"
      /\ "create_refresh_token" \in IssuedBy(last.token) )
    => Is401(last.res, CREDENTIALS_DETAIL)

\* C3, in a state: a verifier never yields a subject or a user for a token
\* whose expiry is earlier than its clock.
C3_ExpiredRejected ==
    ( /\ last.op \in TokenVerifiers
      /\ Expired(last.token, now) )
    => last.res.kind = "raise"

\* C3, over a step: a token that has expired is still expired, and still
\* rejected by all four verifiers, after the step.
C3_StaysExpired ==
    \A t \in Presentable :
        Expired(t, now) =>
            /\ Expired(t, now')
            /\ get_current_user(t, now', users').kind = "raise"
            /\ decode_refresh_token(t, now').kind = "raise"
            /\ get_email_from_token(t, now').kind = "raise"
            /\ get_email_from_reset_token(t, now').kind = "raise"

\* C3: expiry is enforced by every verifier, in every state and from every
\* state on: the two parts above together.
C3_ExpiryEnforced == [] C3_ExpiredRejected /\ [][C3_StaysExpired]_vars

C3_Witness ==
    /\ last.op = "get_email_from_token"
    /\ held.by = "create_email_token"
    /\ last.token = held.tok
    /\ Signed(last.token)
    /\ last.token.payload.scope = "email_token"
    /\ Expired(last.token, now)
    /\ Is422(last.res)

\* C4: decode_refresh_token rejects every token issued by
\* create_email_token, and get_email_from_token never returns the subject
\* of a token issued by create_refresh_token.
C4_EmailRefreshSeparation ==
    /\ ( /\ last.op = "decode_refresh_token"
         /\ "create_email_token" \in IssuedBy(last.token) )
       => /\ last.res.kind = "raise"
          /\ last.res.status = HTTP_401
    /\ ( /\ last.op = "get_email_from_token"
         /\ "create_refresh_token" \in IssuedBy(last.token) )
       => \/ last.res.kind = "raise"
          \/ last.res.value = None

C4_Witness ==
    /\ last.op = "get_email_from_token"
    /\ held.by = "create_refresh_token"
    /\ last.token = held.tok
    /\ last.token.payload.sub \in Emails
    /\ Decodes(last.token, now)
    /\ last.res = Return(None)

\* C6 as claimed: every exception raised by get_current_user or
\* decode_refresh_token is HTTP 401 "Could not validate credentials".
C6_GenericDetail ==
    ( /\ last.op \in {"get_current_user", "decode_refresh_token"}
      /\ last.res.kind = "raise" )
    => Is401(last.res, CREDENTIALS_DETAIL)

\* C6 amended: every failure of get_current_user is HTTP 401 "Could not
\* validate credentials"; decode_refresh_token raises that for a token that
\* does not decode, HTTP 401 "Invalid token scope" for a token that decodes
\* with another scope, and nothing for a missing subject.
C6_DetailPerCheck ==
    /\ last.op = "get_current_user"
       => \/ last.res.kind = "return"
          \/ Is401(last.res, CREDENTIALS_DETAIL)
    /\ last.op = "decode_refresh_token"
       => /\ ~Decodes(last.token, now)
             => Is401(last.res, CREDENTIALS_DETAIL)
          /\ ( /\ Decodes(last.token, now)
               /\ last.token.payload.scope # "refresh_token" )
             => Is401(last.res, SCOPE_DETAIL)
          /\ ( /\ Decodes(last.token, now)
               /\ last.token.payload.scope = "refresh_token" )
             => last.res = Return(PayloadSub(last.token.payload))

C6_Witness ==
    /\ last.op = "decode_refresh_token"
    /\ "create_refresh_token" \in IssuedBy(last.token)
    /\ Is401(last.res, SCOPE_DETAIL)

\* C7: get_email_from_token and get_email_from_reset_token raise HTTP 422
\* exactly when the token does not decode; when it decodes with a scope
\* other than "email_token" resp. "refresh" they return None; they return
\* the subject when it decodes with the expected scope.
ExpectedScope(op) ==
    IF op = "get_email_from_token" THEN "email_token" ELSE "refresh"

C7_AsymmetricFailure ==
    last.op \in {"get_email_from_token", "get_email_from_reset_token"} =>
        /\ ~Decodes(last.token, now) => Is422(last.res)
        /\ ( /\ Decodes(last.token, now)
             /\ last.token.payload.scope # ExpectedScope(last.op) )
           => last.res = Return(None)
        /\ ( /\ Decodes(last.token, now)
             /\ last.token.payload.scope = ExpectedScope(last.op) )
           => last.res = Return(PayloadSub(last.token.payload))

C7_Witness ==
    /\ last.op = "get_email_from_reset_token"
    /\ held.by = "create_email_token"
    /\ last.token = held.tok
    /\ last.token.payload.sub \in Emails
    /\ Decodes(last.token, now)
    /\ last.res = Return(None)

(***************************************************************************)
(* Vocabulary of the contact-store claims.                                 *)
(***************************************************************************)
OwnedBy(user, table) == {c \in table : c.user_id = user}

NotOwnedBy(user, table) == {c \in table : c.user_id # user}

ContactIds(table) == {c.id : c \in table}

\* An id that was never handed out.
UnusedId == nextId

ByIdOps == {"repo_get_contact_by_id", "repo_update_contact_db",
            "repo_delete_contact_db"}

\* C5: get, update and delete invoked by a user on an id owned by another
\* user give exactly the outcome they give for an id that does not exist,
\* HTTP 404 "Contact not found", and leave the table as it is; whatever id
\* a user names, the rows of the other users stay in the table unchanged
\* and a returned row is one of the caller's own.
C5_OwnerIsolation ==
    /\ \A user \in UserIds : \A c \in NotOwnedBy(user, contacts) :
          /\ repo_get_contact_by_id(c.id, user, contacts) = NotFound
          /\ repo_get_contact_by_id(c.id, user, contacts)
                = repo_get_contact_by_id(UnusedId, user, contacts)
          /\ delete_contact(c.id, user, contacts)
                = [res |-> NotFound, table |-> contacts]
          /\ delete_contact(c.id, user, contacts)
                = delete_contact(UnusedId, user, contacts)
          /\ \A body \in UpdateBodies :
                /\ update_contact(c.id, user, body, contacts)
                      = [res |-> NotFound, table |-> contacts]
                /\ update_contact(c.id, user, body, contacts)
                      = update_contact(UnusedId, user, body, contacts)
    /\ \A user \in UserIds : \A id \in RequestIds :
          /\ LET got == repo_get_contact_by_id(id, user, contacts)
             IN  got.kind = "return" => got.value \in OwnedBy(user, contacts)
          /\ NotOwnedBy(user, delete_contact(id, user, contacts).table)
                = NotOwnedBy(user, contacts)
          /\ \A body \in UpdateBodies :
                LET out == update_contact(id, user, body, contacts)
                IN  /\ NotOwnedBy(user, out.table) = NotOwnedBy(user, contacts)
                    /\ out.res.kind = "return" => out.res.value.user_id = user
    /\ ( /\ clast.op \in ByIdOps
         /\ \E c \in NotOwnedBy(clast.user, contacts) : c.id = clast.id )
       => clast.res = NotFound

C5_Witness ==
    /\ clast.op = "repo_delete_contact_db"
    /\ \E c \in NotOwnedBy(clast.user, contacts) : c.id = clast.id
    /\ clast.res = NotFound

\* C9: an update of a contact the caller owns returns and stores the row
\* whose fields given in the body have the body's values and whose other
\* fields, id and owner are as before, and leaves every other row alone;
\* an update of a contact that is not found raises 404 and leaves the
\* table as it is.
C9_PartialUpdate ==
    /\ \A user \in UserIds : \A id \in RequestIds : \A body \in UpdateBodies :
          LET old == get_specific_contact_belongs_to_user(id, user, contacts)
              out == update_contact(id, user, body, contacts)
          IN  IF old = NoContact
                THEN out = [res |-> NotFound, table |-> contacts]
                ELSE /\ out.res.kind = "return"
                     /\ out.res.value \in out.table
                     /\ out.res.value.id = old.id
                     /\ out.res.value.user_id = old.user_id
                     /\ \A f \in ContactFields :
                           out.res.value[f] =
                               IF f \in body.fields_set
                                 THEN body.values[f] ELSE old[f]
                     /\ out.table \ {out.res.value} = contacts \ {old}
    /\ clast.op = "repo_update_contact_db"
       => IF clast.res.kind = "return"
            THEN clast.res.value \in OwnedBy(clast.user, contacts)
            ELSE /\ clast.res = NotFound
                 /\ clast.id \notin ContactIds(OwnedBy(clast.user, contacts))

C9_Witness ==
    /\ clast.op = "repo_update_contact_db"
    /\ clast.res.kind = "return"
    /\ clast.res.value \in contacts
    /\ clast.res.value.first_name = "Ann"
    /\ clast.res.value.last_name = "Doe"
    /\ Cardinality(contacts) = 2

\* C10: a delete of a contact the caller owns removes that row and no
\* other and returns "Contact '<first_name> <last_name>' successfully
\* deleted" with the names the row had; on the table it leaves, get, update
\* and delete of the same id by the same user give 404; an id that is gone
\* is not handed out again.
C10_Delete ==
    /\ \A user \in UserIds : \A c \in OwnedBy(user, contacts) :
          LET out == delete_contact(c.id, user, contacts)
          IN  /\ out.table = contacts \ {c}
              /\ out.res = Return("Contact '" \o c.first_name \o " "
                                  \o c.last_name \o "' successfully deleted")
              /\ (c.first_name = "John" /\ c.last_name = "Doe")
                 => out.res.value = "Contact 'John Doe' successfully deleted"
              /\ repo_get_contact_by_id(c.id, user, out.table) = NotFound
              /\ delete_contact(c.id, user, out.table).res = NotFound
              /\ \A body \in UpdateBodies :
                    update_contact(c.id, user, body, out.table).res = NotFound
    /\ \A c \in contacts : c.id < nextId
    /\ clast.op = "repo_delete_contact_db"
       => /\ clast.id \notin ContactIds(OwnedBy(clast.user, contacts))
          /\ repo_get_contact_by_id(clast.id, clast.user, contacts) = NotFound

C10_Witness ==
    /\ clast.op = "repo_delete_contact_db"
    /\ clast.res = Return("Contact 'John Doe' successfully deleted")
    /\ contacts # {}
    /\ clast.id \notin ContactIds(contacts)

(***************************************************************************)
(* Vocabulary of the birthday claims.                                      *)
(***************************************************************************)
SameMonthDay(a, b) == a.m = b.m /\ a.d = b.d

\* The birthday comes round on one of the days today .. today + 7.
BirthdayWithinWeek(b_day, day) ==
    \E k \in 0..7 : SameMonthDay(b_day, AddDays(day, k))

\* C8: a completed upcoming-birthday query of a user includes each of the
\* user's contacts born on the month and day of today + 3 days, excludes
\* those born on the month and day of today + 8 days or today - 1 day, and
\* returns exactly the user's contacts whose next birthday is one of the
\* days today .. today + 7.
C8_BirthdayWindow ==
    ( /\ clast.op = "repo_get_upcoming_birthday_contacts"
      /\ clast.res.kind = "return" )
    => /\ clast.res.value \subseteq OwnedBy(clast.user, contacts)
       /\ \A c \in OwnedBy(clast.user, contacts) :
             /\ SameMonthDay(c.b_day, AddDays(today, 3))
                => c \in clast.res.value
             /\ SameMonthDay(c.b_day, AddDays(today, 8))
                => c \notin clast.res.value
             /\ SameMonthDay(c.b_day, AddDays(today, 0 - 1))
                => c \notin clast.res.value
             /\ c \in clast.res.value <=> BirthdayWithinWeek(c.b_day, today)

(***************************************************************************)
(* Contact listing and search.  Text columns are sequences of characters   *)
(* here, so that lower(), LIKE and "contains" are computed character by    *)
(* character.                                                              *)
(***************************************************************************)
MaxSearchContacts == 2      \* contacts created per behaviour

\* str.lower() / SQL lower() on one character of the alphabet used.
LowerChar(c) ==
    CASE c = "A" -> "a"
      [] c = "J" -> "j"
      [] c = "N" -> "n"
      [] OTHER   -> c

Lower(s) == [i \in 1..Len(s) |-> LowerChar(s[i])]

\* SQL LIKE: "%" matches any run of characters, "_" any one character,
\* every other character of the pattern matches itself.
RECURSIVE Like(_, _)
Like(s, p) ==
    IF p = <<>> THEN s = <<>>
    ELSE IF Head(p) = "%"
      THEN Like(s, Tail(p)) \/ (s # <<>> /\ Like(Tail(s), p))
    ELSE /\ s # <<>>
         /\ (Head(p) = "_" \/ Head(p) = Head(s))
         /\ Like(Tail(s), Tail(p))

\* Rows in ascending id order (ORDER BY contacts.id ASC).
RECURSIVE OrderById(_)
OrderById(rows) ==
    IF rows = {} THEN <<>>
    ELSE LET first == CHOOSE c \in rows : \A o \in rows : c.id <= o.id
         IN  <<first>> \o OrderById(rows \ {first})

\* OFFSET offset LIMIT limit applied to the ordered rows.
OffsetLimit(rows, offset, limit) ==
    LET from == IF offset < Len(rows) THEN offset + 1 ELSE Len(rows) + 1
        upto == IF offset + limit < Len(rows) THEN offset + limit ELSE Len(rows)
    IN  SubSeq(rows, from, upto)

\* contacts_repo.repo_get_contacts
repo_get_contacts(limit, offset, user, table) ==
    OffsetLimit(OrderById({c \in table : c.user_id = user}), offset, limit)

\* contacts_repo.repo_get_contacts_query
repo_get_contacts_query(query, limit, offset, user, table) ==
    LET search_query == <<"%">> \o query \o <<"%">>
        lower_search_query == Lower(search_query)
    IN  OffsetLimit(OrderById({c \in table :
                        /\ c.user_id = user
                        /\ \/ Like(Lower(c.first_name), lower_search_query)
                           \/ Like(Lower(c.last_name), lower_search_query)
                           \/ Like(Lower(c.email), lower_search_query)}),
                    offset, limit)

(***************************************************************************)
(* Search state machine: contacts are created, users list and search them. *)
(***************************************************************************)
SearchFirstNames == {<<"A", "n">>, <<"J", "o">>}
SearchLastNames  == {<<"D">>}
SearchMailBoxes  == {<<"a", "@", "x">>}

SearchBodies ==
    [first_name : SearchFirstNames, last_name : SearchLastNames,
     email : SearchMailBoxes, phone : Phones, b_day : {NoDate}, note : Notes]

Queries == {<<>>, <<"N">>, <<"j", "o">>, <<"x">>, <<"_">>}

Limits == {1, 10}

Offsets == {0, 1}

Asked(op, user, query, limit, offset, res) ==
    [op |-> op, user |-> user, id |-> 0, res |-> Return(res),
     query |-> query, limit |-> limit, offset |-> offset]

SearchInit ==
    /\ contacts = {}
    /\ nextId = 1
    /\ clast = ContactsIdle
    /\ today = NoDate
    /\ now = 0
    /\ users = <<>>
    /\ held = NotHeld
    /\ last = Idle
    /\ reqs = <<>>

CreateSearchContact ==
    /\ nextId <= MaxSearchContacts
    /\ \E user \in UserIds, body \in SearchBodies :
          repo_create_new_contact(user, body)

ListContacts ==
    /\ \E user \in UserIds, limit \in Limits, offset \in Offsets :
          clast' = Asked("repo_get_contacts", user, <<>>, limit, offset,
                         repo_get_contacts(limit, offset, user, contacts))
    /\ UNCHANGED <<contacts, nextId, today>>
    /\ UNCHANGED authVars

SearchContacts ==
    /\ \E user \in UserIds, query \in Queries,
           limit \in Limits, offset \in Offsets :
          clast' = Asked("repo_get_contacts_query", user, query, limit, offset,
                         repo_get_contacts_query(query, limit, offset, user,
                                                 contacts))
    /\ UNCHANGED <<contacts, nextId, today>>
    /\ UNCHANGED authVars

SearchNext ==
    \/ CreateSearchContact
    \/ ListContacts
    \/ SearchContacts

SpecSearch == SearchInit /\ [][SearchNext]_vars

(***************************************************************************)
(* Vocabulary of the search claim.                                         *)
(***************************************************************************)
\* q occurs in s as a run of consecutive characters.
Contains(s, q) ==
    \E i \in 0..(Len(s) - Len(q)) : SubSeq(s, i + 1, i + Len(q)) = q

ContainsIgnoringCase(s, q) == Contains(Lower(s), Lower(q))

\* The owner's contacts one of whose searched fields contains the query.
Matching(user, query, table) ==
    {c \in OwnedBy(user, table) :
        \/ ContainsIgnoringCase(c.first_name, query)
        \/ ContainsIgnoringCase(c.last_name, query)
        \/ ContainsIgnoringCase(c.email, query)}

IsSearch == clast.op = "repo_get_contacts_query"

\* The two parts of C11, each on the search that was just answered.
EmptySearchIsListing ==
    (IsSearch /\ clast.query = <<>>) =>
        clast.res.value =
            repo_get_contacts(clast.limit, clast.offset, clast.user, contacts)

SearchIsSubstringMatch ==
    IsSearch =>
        clast.res.value =
            OffsetLimit(OrderById(Matching(clast.user, clast.query, contacts)),
                        clast.offset, clast.limit)

\* C11: a search with the empty query returns what the plain listing
\* returns for the same owner, limit and offset, and every search returns
\* exactly the owner's contacts whose first name, last name or email
\* contains the query as a case-insensitive substring, in ascending id
\* order, cut by offset and limit.
C11_SearchIsSubstringFilter ==
    EmptySearchIsListing /\ SearchIsSubstringMatch

(***************************************************************************)
(* Vocabulary of the leap-day claim.                                       *)
(***************************************************************************)
IsLeapDay(date) == date.m = 2 /\ date.d = 29

\* The user's contacts not born on 29 February whose birthday, put into
\* the year of the given day, lies in the window the query looks at.
OthersInWindow(user, table, day) ==
    {c \in OwnedBy(user, table) :
        /\ ~IsLeapDay(c.b_day)
        /\ DateLeq(day, Date(day.y, c.b_day.m, c.b_day.d))
        /\ DateLeq(Date(day.y, c.b_day.m, c.b_day.d),
                   AddDays(day, WINDOW_DAYS))}

\* C12: the upcoming-birthdays query never fails, whether or not the user
\* has a contact born on 29 February and whether or not the current year
\* is a leap year, and the contacts not born on 29 February that it
\* returns are those it returns when the leap-day contacts are absent.
C12_LeapDayTolerated ==
    clast.op = "repo_get_upcoming_birthday_contacts" =>
        /\ clast.res.kind = "return"
        /\ {c \in clast.res.value : ~IsLeapDay(c.b_day)}
               = OthersInWindow(clast.user, contacts, today)

(***************************************************************************)
(* The user directory (users_repo.py).                                     *)
(***************************************************************************)
MaxRequests == 2            \* registration requests per behaviour

\* user.is_activated on the None that the lookup returned.
AttributeError ==
    Raise(500, "AttributeError: 'NoneType' object has no attribute 'is_activated'")

\* db.commit() of a second row with an email under a unique constraint.
IntegrityError == Raise(500, "IntegrityError: duplicate key value")

\* The answer of the registration route to an email that is taken.
Conflict == Raise(409, "Account already exists")

Pending == Return(None)

\* The index of the row the lookup returns, 0 when it returns None.
IndexByEmail(email, table) ==
    LET hits == {i \in 1..Len(table) : table[i].email = email}
    IN  IF hits = {} THEN 0 ELSE CHOOSE i \in hits : \A j \in hits : i <= j

\* users_repo.confirmed_email: the outcome and the table after it.
confirmed_email(email, table) ==
    LET user == repo_user_authentication_by_email(email, table)
    IN  IF user = NoUser
          THEN [res |-> AttributeError, table |-> table]
          ELSE [res |-> Return(None),
                table |-> [table EXCEPT ![IndexByEmail(email, table)]
                                            .is_activated = TRUE]]

\* users_repo.repo_create_user: the outcome and the table after the commit.
\* unique tells whether the users table has a unique constraint on email.
repo_create_user(email, table, clock, unique) ==
    IF unique /\ IndexByEmail(email, table) # 0
      THEN [res |-> IntegrityError, table |-> table]
      ELSE [res |-> Return(NewUserRow(email, table, clock)),
            table |-> Append(table, NewUserRow(email, table, clock))]

\* users_repo.repo_update_refresh_token on row i of the table.
repo_update_refresh_token(i, new_refresh_token, table) ==
    [table EXCEPT ![i].refresh_token = new_refresh_token]

(***************************************************************************)
(* User state machine: registration requests run their two database calls  *)
(* interleaved with each other, emails are confirmed, refresh tokens are    *)
(* rotated and presented to decode_refresh_token while the clock advances. *)
(***************************************************************************)
Requests == 1..MaxRequests

NewRequest == [pc |-> "new", email |-> None, res |-> Pending]

UserDone(op, email, token, by, res) ==
    [op |-> op, email |-> email, token |-> token, by |-> by, res |-> res]

\* What each issuer hands out for an email at the given clock.
Issued(email, clock) ==
    [create_access_token  |-> create_access_token(email, <<>>, clock),
     create_refresh_token |-> create_refresh_token(email, <<>>, clock),
     create_email_token   |-> create_email_token(email, clock),
     create_reset_token   |-> create_reset_token(email, RESET_HOURS, clock)]

Issuers == {"create_access_token", "create_refresh_token",
            "create_email_token", "create_reset_token"}

UsersInit ==
    /\ now = 0
    /\ users = <<>>
    /\ held = NotHeld
    /\ last = Idle
    /\ reqs = [r \in Requests |-> NewRequest]
    /\ contacts = {}
    /\ nextId = 1
    /\ clast = ContactsIdle
    /\ today = NoDate

\* The route's check: find the user by email, answer Conflict if found.
\* Requests arrive in the order of their numbers.
SignupCheck ==
    /\ \E r \in Requests, email \in Emails :
          /\ reqs[r].pc = "new"
          /\ \A q \in 1..(r - 1) : reqs[q].pc # "new"
          /\ reqs' = [reqs EXCEPT ![r] =
                IF repo_user_authentication_by_email(email, users) # NoUser
                  THEN [pc |-> "done", email |-> email, res |-> Conflict]
                  ELSE [pc |-> "create", email |-> email, res |-> Pending]]
    /\ last' = Idle
    /\ UNCHANGED <<now, users, held>>
    /\ UNCHANGED contactVars

\* The route's second database call: repo_create_user.
SignupCreate ==
    /\ \E r \in Requests, unique \in BOOLEAN :
          /\ reqs[r].pc = "create"
          /\ LET out == repo_create_user(reqs[r].email, users, now, unique)
             IN  /\ users' = out.table
                 /\ reqs' = [reqs EXCEPT ![r].pc = "done", ![r].res = out.res]
                 /\ last' = UserDone("repo_create_user", reqs[r].email,
                                     Malformed, "none", out.res)
    /\ UNCHANGED <<now, held>>
    /\ UNCHANGED contactVars

ConfirmEmail ==
    /\ \E email \in Emails :
          LET out == confirmed_email(email, users)
          IN  /\ users' = out.table
              /\ last' = UserDone("confirmed_email", email, Malformed, "none",
                                  out.res)
    /\ UNCHANGED <<now, held, reqs>>
    /\ UNCHANGED contactVars

\* Login and token refresh store a new refresh token for the user.
RotateRefreshToken ==
    /\ \E i \in 1..Len(users) :
          LET tok == create_refresh_token(users[i].email, <<>>, now)
          IN  /\ users' = repo_update_refresh_token(i, tok, users)
              /\ last' = UserDone("repo_update_refresh_token", users[i].email,
                                  tok, "create_refresh_token", Return(None))
    /\ UNCHANGED <<now, held, reqs>>
    /\ UNCHANGED contactVars

\* A stored refresh token is presented to decode_refresh_token.
PresentStored ==
    /\ \E i \in 1..Len(users) :
          last' = UserDone("decode_refresh_token", users[i].email,
                           users[i].refresh_token, "stored",
                           decode_refresh_token(users[i].refresh_token, now))
    /\ UNCHANGED <<now, users, held, reqs>>
    /\ UNCHANGED contactVars

\* A token just handed out by an issuer is presented to it.
PresentIssued ==
    /\ \E email \in Emails, by \in Issuers :
          last' = UserDone("decode_refresh_token", email,
                           Issued(email, now)[by], by,
                           decode_refresh_token(Issued(email, now)[by], now))
    /\ UNCHANGED <<now, users, held, reqs>>
    /\ UNCHANGED contactVars

\* Registration and activation.
SignupNext ==
    \/ SignupCheck
    \/ SignupCreate
    \/ ConfirmEmail

SpecSignup == UsersInit /\ [][SignupNext]_vars

\* Registration and the life of the stored refresh tokens.
UsersNext ==
    \/ Tick
    \/ SignupCheck
    \/ SignupCreate
    \/ RotateRefreshToken
    \/ PresentStored
    \/ PresentIssued

SpecUsers == UsersInit /\ [][UsersNext]_vars

(***************************************************************************)
(* Vocabulary of the user-directory claims.                                *)
(***************************************************************************)
WithEmail(email) == {i \in 1..Len(users) : users[i].email = email}

\* confirmed_email returns without raising.
ConfirmedQuietly ==
    last.op = "confirmed_email" => last.res = Return(None)

\* After confirmed_email for a known email the user found is activated.
ConfirmedSetsFlag ==
    (last.op = "confirmed_email" /\ WithEmail(last.email) # {}) =>
        /\ last.res = Return(None)
        /\ repo_user_authentication_by_email(last.email, users).is_activated

\* confirmed_email changes nothing but the activation flag of the user
\* found, and changes nothing at all when that flag is set already or no
\* user is found.
ConfirmedTouchesFlagOnly ==
    [][last'.op = "confirmed_email" =>
         /\ Len(users') = Len(users)
         /\ \A i \in 1..Len(users) :
               /\ [users'[i] EXCEPT !.is_activated = FALSE]
                      = [users[i] EXCEPT !.is_activated = FALSE]
               /\ users'[i].is_activated # users[i].is_activated
                      => i = IndexByEmail(last'.email, users)]_vars

\* C13: confirmed_email raises no error, whether or not a user has the
\* email: for an email without a user it returns and leaves the table as
\* it is, for an email with a user it leaves that user activated.
C13_ActivationSilent ==
    ConfirmedQuietly /\ ConfirmedSetsFlag

\* No two rows of the users table have the same email.
EmailsUnique ==
    \A i, j \in 1..Len(users) : users[i].email = users[j].email => i = j

\* A finished registration either answered Conflict or returned the row it
\* added.
SignupEndsInRowOrConflict ==
    \A r \in Requests :
        reqs[r].pc = "done" =>
            \/ reqs[r].res = Conflict
            \/ /\ reqs[r].res.kind = "return"
               /\ reqs[r].res.value.email = reqs[r].email

\* C14: however the database calls of the registration requests
\* interleave, no two users have the same email, and every registration
\* for an email that has a user ends in Conflict: a finished registration
\* has either added the one user of its email or answered Conflict.
C14_UniqueEmails ==
    EmailsUnique /\ SignupEndsInRowOrConflict

====
